---- MODULE Spec2Model ----
EXTENDS Integers, Sequences, FiniteSets, TLC

\* A model of src/merge_bom.py: BOMReader.merge_and_write and the helpers it
\* calls, as a state machine over a directory of CSV files, the output file
\* and the log.
\*
\* Text is a sequence of one-character strings, so that strip(), replace(),
\* float(), str() and the slicing of _short act on characters as they do in
\* Python. Floats are exact decimals with ten fractional digits plus inf,
\* -inf and nan: binary rounding below 1e-10 and the sign of zero are not
\* modelled. A finite value is t * 10^9 + r units of 1e-10, with t the number
\* of whole tenths (rounded down) and 0 <= r < 10^9.

(***************************************************************************)
(* Bounds of the model                                                     *)
(***************************************************************************)
MaxFiles == 2
MaxRows == 3
MaxRuns == 2

(***************************************************************************)
(* Characters and text                                                     *)
(***************************************************************************)
None == <<"None">>

Digits == <<"0","1","2","3","4","5","6","7","8","9">>
UpperChars == <<"A","B","C","D","E","F","G","H","I","J","K","L","M","N","O","P","Q","R","S","T","U","V","W","X","Y","Z">>
LowerChars == <<"a","b","c","d","e","f","g","h","i","j","k","l","m","n","o","p","q","r","s","t","u","v","w","x","y","z">>

IsDigit(c) == \E i \in 1..10 : Digits[i] = c
DigitVal(c) == (CHOOSE i \in 1..10 : Digits[i] = c) - 1
DigitChar(d) == Digits[d + 1]

LowerChar(c) ==
    IF \E i \in 1..26 : UpperChars[i] = c
    THEN LowerChars[CHOOSE i \in 1..26 : UpperChars[i] = c]
    ELSE c
lower(s) == [i \in 1..Len(s) |-> LowerChar(s[i])]

IsSpace(c) == c \in {" ", "\t", "\n", "\r"}

RECURSIVE lstrip(_)
lstrip(s) == IF s # <<>> /\ IsSpace(Head(s)) THEN lstrip(Tail(s)) ELSE s

RECURSIVE rstrip(_)
rstrip(s) ==
    IF s # <<>> /\ IsSpace(s[Len(s)]) THEN rstrip(SubSeq(s, 1, Len(s) - 1)) ELSE s

strip(s) == rstrip(lstrip(s))

\* s.replace(c, '')
RemoveChar(s, c) == SelectSeq(s, LAMBDA x : x # c)

\* s[:n]
Prefix(s, n) == SubSeq(s, 1, IF n < Len(s) THEN n ELSE Len(s))

endswith(s, suffix) ==
    /\ Len(s) >= Len(suffix)
    /\ SubSeq(s, Len(s) - Len(suffix) + 1, Len(s)) = suffix

InSeq(x, s) == \E i \in 1..Len(s) : s[i] = x

\* (x or '')
OrEmpty(x) == IF x = None \/ x = <<>> THEN <<>> ELSE x

RECURSIVE Join(_, _)
Join(parts, sep) ==
    IF parts = <<>> THEN <<>>
    ELSE IF Len(parts) = 1 THEN parts[1]
    ELSE parts[1] \o sep \o Join(Tail(parts), sep)

Contains(s, sub) ==
    \E i \in 0..(Len(s) - Len(sub)) : SubSeq(s, i + 1, i + Len(sub)) = sub

(***************************************************************************)
(* Floats                                                                  *)
(***************************************************************************)
Base == 10^9

Fin(t, r) == [k |-> "fin", t |-> t, r |-> r]
Zero == Fin(0, 0)
PosInf == [k |-> "inf", t |-> 0, r |-> 0]
NegInf == [k |-> "-inf", t |-> 0, r |-> 0]
NaN == [k |-> "nan", t |-> 0, r |-> 0]

IsFinite(v) == v.k = "fin"
IsNeg(v) == v.t < 0

\* -v for a finite v
FNeg(v) == IF v.r = 0 THEN Fin(0 - v.t, 0) ELSE Fin(0 - v.t - 1, Base - v.r)

\* a + b
FAdd(a, b) ==
    IF a.k = "nan" \/ b.k = "nan" THEN NaN
    ELSE IF a.k = "fin" /\ b.k = "fin"
         THEN Fin(a.t + b.t + ((a.r + b.r) \div Base), (a.r + b.r) % Base)
    ELSE IF a.k = "fin" THEN b
    ELSE IF b.k = "fin" THEN a
    ELSE IF a.k = b.k THEN a
    ELSE NaN

FSub(a, b) == FAdd(a, FNeg(b))

FAbs(v) == IF IsNeg(v) THEN FNeg(v) ELSE v

\* a < b for finite values
FLess(a, b) == a.t < b.t \/ (a.t = b.t /\ a.r < b.r)

RECURSIVE FSum(_)
FSum(vs) == IF vs = <<>> THEN Zero ELSE FAdd(FSum(SubSeq(vs, 1, Len(vs) - 1)), vs[Len(vs)])

RECURSIVE NatOf(_)
NatOf(ds) ==
    IF ds = <<>> THEN 0 ELSE NatOf(SubSeq(ds, 1, Len(ds) - 1)) * 10 + DigitVal(ds[Len(ds)])

RECURSIVE NatText(_)
NatText(n) == IF n < 10 THEN <<DigitChar(n)>> ELSE Append(NatText(n \div 10), DigitChar(n % 10))

RECURSIVE FixedText(_, _)
FixedText(n, width) ==
    IF width = 0 THEN <<>> ELSE Append(FixedText(n \div 10, width - 1), DigitChar(n % 10))

RECURSIVE DropTrailingZeros(_)
DropTrailingZeros(ds) ==
    IF ds # <<>> /\ ds[Len(ds)] = "0" THEN DropTrailingZeros(SubSeq(ds, 1, Len(ds) - 1)) ELSE ds

\* int(v): truncation toward zero of a finite v
Trunc(v) ==
    IF v.t >= 0 \/ (v.t % 10 = 0 /\ v.r = 0) THEN v.t \div 10 ELSE (v.t \div 10) + 1

IntText(n) == IF n < 0 THEN <<"-">> \o NatText(0 - n) ELSE NatText(n)

(***************************************************************************)
(* float(s) and str(x)                                                     *)
(***************************************************************************)
Unsigned(s) == IF s # <<>> /\ Head(s) \in {"+", "-"} THEN Tail(s) ELSE s

DotAt(b) ==
    IF InSeq(".", b)
    THEN CHOOSE i \in 1..Len(b) : b[i] = "." /\ \A j \in 1..(i - 1) : b[j] # "."
    ELSE Len(b) + 1
IntDigits(b) == SubSeq(b, 1, DotAt(b) - 1)
FracDigits(b) == SubSeq(b, DotAt(b) + 1, Len(b))

\* digits [ "." digits ] or "." digits. Exponents and digit-group underscores
\* are outside the alphabet of the texts the model feeds in.
IsDecimal(b) ==
    /\ \A i \in 1..Len(IntDigits(b)) : IsDigit(IntDigits(b)[i])
    /\ \A i \in 1..Len(FracDigits(b)) : IsDigit(FracDigits(b)[i])
    /\ Len(IntDigits(b)) + Len(FracDigits(b)) >= 1

SpecialWords == {<<"i","n","f">>, <<"i","n","f","i","n","i","t","y">>, <<"n","a","n">>}

\* float(s) succeeds
float_ok(s) == lower(Unsigned(s)) \in SpecialWords \/ IsDecimal(Unsigned(s))

\* the magnitude of a decimal numeral; digits past the tenth are dropped
Magnitude(b) ==
    LET f == Prefix(FracDigits(b) \o <<"0","0","0","0","0","0","0","0","0","0">>, 10)
    IN Fin(NatOf(IntDigits(b)) * 10 + DigitVal(f[1]), NatOf(SubSeq(f, 2, 10)))

\* float(s) where it succeeds
float_of(s) ==
    LET b == Unsigned(s)
        neg == s # <<>> /\ Head(s) = "-"
    IN IF lower(b) = <<"n","a","n">> THEN NaN
       ELSE IF lower(b) \in SpecialWords THEN (IF neg THEN NegInf ELSE PosInf)
       ELSE IF neg THEN FNeg(Magnitude(b)) ELSE Magnitude(b)

\* str(x) of a float x (repr: scientific notation below 1e-4)
str_float(v) ==
    IF v.k # "fin"
    THEN (IF v.k = "nan" THEN <<"n","a","n">>
          ELSE IF v.k = "inf" THEN <<"i","n","f">> ELSE <<"-","i","n","f">>)
    ELSE LET m == FAbs(v)
             sign == IF IsNeg(v) THEN <<"-">> ELSE <<>>
             whole == m.t \div 10
             frac == <<DigitChar(m.t % 10)>> \o FixedText(m.r, 9)
         IN IF whole = 0 /\ m # Zero /\ Prefix(frac, 4) = <<"0","0","0","0">>
            THEN LET p == CHOOSE i \in 1..10 :
                              frac[i] # "0" /\ \A j \in 1..(i - 1) : frac[j] = "0"
                     rest == DropTrailingZeros(SubSeq(frac, p + 1, 10))
                 IN sign \o <<frac[p]>>
                         \o (IF rest = <<>> THEN <<>> ELSE <<".">> \o rest)
                         \o <<"e","-">> \o FixedText(p, 2)
            ELSE LET d == DropTrailingZeros(frac)
                 IN sign \o NatText(whole) \o <<".">> \o (IF d = <<>> THEN <<"0">> ELSE d)

(***************************************************************************)
(* BOMReader                                                               *)
(***************************************************************************)
ALLOWED_KEYS == <<"Description", "Qty", "Value", "LCSC">>

CsvSuffix == <<".","c","s","v">>

\* the names of find_csv_files, in listing order
find_csv_files(listing) ==
    SelectSeq(listing, LAMBDA e : endswith(lower(e.name), CsvSuffix))

filter_row(row) ==
    [k \in {ALLOWED_KEYS[i] : i \in 1..4} |-> IF k \in DOMAIN row THEN row[k] ELSE <<>>]

_parse_qty(qty_raw) ==
    IF qty_raw = None THEN Zero
    ELSE LET s == strip(qty_raw)
         IN IF s = <<>> THEN Zero
            ELSE LET s2 == RemoveChar(s, ",")
                 IN IF float_ok(s2) THEN float_of(s2) ELSE Zero

\* 1e-9 in units of 1e-10
EpsUnits == 10

\* abs(total_qty - int(total_qty)) < 1e-9
NearInt(total) ==
    FLess(FAbs(FSub(total, Fin(Trunc(total) * 10, 0))), Fin(0, EpsUnits))

\* int(total_qty) raises for inf and nan
IntRaises(total) == ~IsFinite(total)

\* Mutant: every total is written as int(total).
qty_out_always_int(total) == IntText(Trunc(total))

qty_out(total) ==
    IF NearInt(total) THEN IntText(Trunc(total)) ELSE str_float(total)

max_len == 10

_short(s) ==
    LET s2 == IF s = None THEN <<>> ELSE s
    IN IF Len(s2) <= max_len THEN s2
       ELSE IF max_len <= 2 THEN Prefix(s2, max_len)
       ELSE Prefix(s2, max_len - 2) \o <<".",".">>

(***************************************************************************)
(* The directory, the rows and the files the model feeds in                *)
(***************************************************************************)
T_C1 == <<"C","1">>
T_Resistor == <<"R","e","s","i","s","t","o","r">>
T_Tiny == <<"-","0",".","0","0","0","0","0","0","0","0","0","1">>

\* Parsed rows as csv.DictReader yields them: a column the header lacks is
\* absent, a cell a short line lacks is None, other columns may be present.
RowPool ==
    { [LCSC |-> T_C1, Qty |-> <<"2">>, Description |-> T_Resistor,
       Value |-> <<"1","0","k">>, Footprint |-> <<"0","6","0","3">>],
      [LCSC |-> <<" ">> \o T_C1 \o <<" ">>, Qty |-> T_Tiny,
       Description |-> <<" ">> \o T_Resistor \o <<" ">>, Value |-> <<>>],
      [LCSC |-> <<"c","1">>, Qty |-> <<"1",",","2","3","4">>, Description |-> <<"C","a","p">>],
      [LCSC |-> None, Qty |-> <<"a","b","c">>, Description |-> None, Value |-> None],
      [LCSC |-> <<>>, Qty |-> <<"i","n","f">>, Description |-> <<>>,
       Value |-> <<"2","2","k">>] }

NamePool ==
    { <<"a",".","c","s","v">>,
      <<"b","o","a","r","d","_","r","e","v","_","a",".","C","S","V">>,
      <<"n","o","t","e","s",".","t","x","t">> }

\* output_csv, 'merged.csv'
OutputName == <<"m","e","r","g","e","d",".","c","s","v">>

SeqsUpTo(S, n) == UNION { [1..k -> S] : k \in 0..n }

IsInjective(f) == \A i, j \in DOMAIN f : f[i] = f[j] => i = j

NameSeqs == { n \in SeqsUpTo(NamePool, MaxFiles) : IsInjective(n) }

\* where each of n files ends in a sequence of len rows
Cuts(n, len) ==
    { c \in [1..n -> 0..len] :
          /\ \A i \in 1..(n - 1) : c[i] <= c[i + 1]
          /\ IF n = 0 THEN len = 0 ELSE c[n] = len }

IsCsvName(name) == endswith(lower(name), CsvSuffix)

\* for each csv name of a listing its rank among the csv names, 0 for others
CsvRank(names) ==
    [i \in 1..Len(names) |->
        IF IsCsvName(names[i])
        THEN Cardinality({ j \in 1..i : IsCsvName(names[j]) })
        ELSE 0]

NumCsv(rank) == Cardinality({ i \in DOMAIN rank : rank[i] > 0 })

\* what a file that is not a csv file holds: a row that must not be merged
OtherRows == <<[LCSC |-> T_C1, Qty |-> <<"2">>, Description |-> <<"C","a","p">>, Value |-> <<>>]>>

\* A listing of the files named, the rows dealt to its csv files in order. A
\* csv file may be unreadable (bad), whatever rows precede the fault in it.
MakeDir(names, rank, rows, cut, bad) ==
    [i \in 1..Len(names) |->
        [name |-> names[i], bad |-> i \in bad,
         rows |-> IF rank[i] > 0
                  THEN SubSeq(rows, (IF rank[i] = 1 THEN 0 ELSE cut[rank[i] - 1]) + 1, cut[rank[i]])
                  ELSE OtherRows]]

BadSets(rank) == SUBSET { i \in DOMAIN rank : rank[i] > 0 }

(***************************************************************************)
(* State                                                                   *)
(***************************************************************************)
VARIABLES
    dir,         \* os.listdir(dir_path): the files of the directory, in listing order
    dir_ok,      \* dir_path names a directory that can be listed
    out_in_dir,  \* output_csv resolves into dir_path (the defaults: '.', 'merged.csv')
    outfile,     \* the file at output_csv
    pc,          \* where merge_and_write stands
    all_data,    \* read_all(): filename -> filtered rows, in insertion order
    cursor,      \* rows of all_data the aggregation loop has processed
    merged,      \* the merge mapping, in insertion order
    log,         \* the records the logger emitted in this run
    run,         \* calls of merge_and_write so far
    prev_out     \* the output file as the previous call left it

vars == <<dir, dir_ok, out_in_dir, outfile, pc, all_data, cursor, merged, log, run, prev_out>>

NoFile == [exists |-> FALSE, header |-> FALSE, rows |-> <<>>]

\* the rows a file holds: the output file's are what was written to it
FileRows(e) == IF e.name = OutputName THEN outfile.rows ELSE e.rows

\* Mutant: the rows parsed before the fault are kept.
read_csv_partial(e) == FileRows(e)

read_csv(e) == IF e.bad THEN <<>> ELSE FileRows(e)

read_all(listing) ==
    LET paths == find_csv_files(listing)
    IN [i \in 1..Len(paths) |->
           [file |-> paths[i].name,
            rows |-> [j \in 1..Len(read_csv(paths[i])) |-> filter_row(read_csv(paths[i])[j])]]]

\* all_data.items() flattened: (filename, row) in file-then-row order
RECURSIVE Flat(_)
Flat(data) ==
    IF data = <<>> THEN <<>>
    ELSE [j \in 1..Len(Head(data).rows) |-> [file |-> Head(data).file, row |-> Head(data).rows[j]]]
         \o Flat(Tail(data))

\* Mutant: the LCSC is not stripped.
KeyOf_unstripped(row) == OrEmpty(row.LCSC)

KeyOf(row) == strip(OrEmpty(row.LCSC))

KeyIndex(m, key) ==
    IF \E i \in 1..Len(m) : m[i].key = key
    THEN CHOOSE i \in 1..Len(m) : m[i].key = key
    ELSE 0

NewEntry(key) ==
    [key |-> key, Qty |-> Zero, Descriptions |-> <<>>, Values |-> <<>>, Files |-> <<>>]

\* Mutant: a new key goes to the front of the mapping.
setdefault_front(m, key) == IF KeyIndex(m, key) = 0 THEN <<NewEntry(key)>> \o m ELSE m

\* merged.setdefault(key, {...})
setdefault(m, key) == IF KeyIndex(m, key) = 0 THEN Append(m, NewEntry(key)) ELSE m

\* Mutant: a description is recorded again when it repeats.
UpdateEntry_no_dedupe(entry, filename, qty, desc, val) ==
    [key |-> entry.key,
     Qty |-> FAdd(entry.Qty, qty),
     Descriptions |-> IF desc # <<>> THEN Append(entry.Descriptions, desc) ELSE entry.Descriptions,
     Values |-> IF val # <<>> /\ ~InSeq(val, entry.Values)
                THEN Append(entry.Values, val) ELSE entry.Values,
     Files |-> Append(entry.Files, [file |-> filename, qty |-> qty, desc |-> desc, value |-> val])]

\* the entry after one row is added to it
UpdateEntry(entry, filename, qty, desc, val) ==
    [key |-> entry.key,
     Qty |-> FAdd(entry.Qty, qty),
     Descriptions |-> IF desc # <<>> /\ ~InSeq(desc, entry.Descriptions)
                      THEN Append(entry.Descriptions, desc) ELSE entry.Descriptions,
     Values |-> IF val # <<>> /\ ~InSeq(val, entry.Values)
                THEN Append(entry.Values, val) ELSE entry.Values,
     Files |-> Append(entry.Files, [file |-> filename, qty |-> qty, desc |-> desc, value |-> val])]

\* the body of the aggregation loop
AddRow(m, filename, row) ==
    LET key == KeyOf(row)
        m2 == setdefault(m, key)
        i == KeyIndex(m2, key)
    IN [m2 EXCEPT ![i] = UpdateEntry(m2[i], filename, _parse_qty(row.Qty),
                                     strip(OrEmpty(row.Description)), strip(OrEmpty(row.Value)))]

\* the row writer.writerow receives for one entry
OutRow(data) ==
    [Description |-> IF data.Descriptions # <<>> THEN data.Descriptions[1] ELSE <<>>,
     Qty |-> qty_out(data.Qty),
     Value |-> IF data.Values # <<>> THEN data.Values[1] ELSE <<>>,
     LCSC |-> data.key]

ContributorText(c) ==
    _short(c.file) \o <<"(","q","t","y","=">> \o _short(str_float(c.qty))
        \o <<",","d","e","s","c","=","'">> \o _short(c.desc)
        \o <<"'",",","v","a","l","=","'">> \o _short(c.value) \o <<"'",")">>

ShortAll(texts) == [i \in 1..Len(texts) |-> _short(texts[i])]

\* the message of the collision line of one entry
CollisionMessage(data) ==
    <<"M","e","r","g","e","d"," ","L","C","S","C","=","'">> \o _short(data.key)
        \o <<"'"," ","t","o","t","a","l","_","q","t","y","=">> \o _short(str_float(data.Qty))
        \o <<" ","V","a","l","u","e","s","=","[">> \o Join(ShortAll(data.Values), <<";"," ">>)
        \o <<"]"," ","D","e","s","c","r","i","p","t","i","o","n","s","=","[">>
        \o Join(ShortAll(data.Descriptions), <<";"," ">>)
        \o <<"]"," ","C","o","n","t","r","i","b","u","t","o","r","s","=","[">>
        \o Join([i \in 1..Len(data.Files) |-> ContributorText(data.Files[i])], <<","," ">>)
        \o <<"]">>

\* Mutant: a collision needs more than two contributing rows.
IsCollision_over_two(data) == Len(data.Files) > 2

IsCollision(data) == Len(data.Files) > 1

\* the lines of the collision loop
CollisionLines(m) ==
    LET hits == SelectSeq(m, IsCollision)
    IN [i \in 1..Len(hits) |-> [level |-> "INFO", message |-> CollisionMessage(hits[i])]]

ErrorLine ==
    [level |-> "ERROR",
     message |-> <<"F","a","i","l","e","d"," ","t","o"," ","w","r","i","t","e"," ",
                   "m","e","r","g","e","d"," ","C","S","V"," ","'">> \o OutputName \o <<"'",":"," ">>]

(***************************************************************************)
(* merge_and_write                                                         *)
(***************************************************************************)
InitDir ==
    /\ dir_ok \in BOOLEAN
    /\ IF dir_ok
       THEN \E names \in NameSeqs, rows \in SeqsUpTo(RowPool, MaxRows) :
                \E rank \in {CsvRank(names)} :
                    \E cut \in Cuts(NumCsv(rank), Len(rows)), bad \in BadSets(rank) :
                        dir = MakeDir(names, rank, rows, cut, bad)
       ELSE dir = <<>>
    /\ outfile = NoFile
    /\ pc = "idle"
    /\ all_data = <<>>
    /\ cursor = 0
    /\ merged = <<>>
    /\ log = <<>>
    /\ run = 1
    /\ prev_out = [file |-> NoFile, ok |-> FALSE]

\* As the script runs it: BOMReader(dir_path='./BOMs') writing 'merged.csv'
\* into the working directory, outside dir_path.
Init == InitDir /\ out_in_dir = FALSE

\* With the default arguments: dir_path='.' and output_csv='merged.csv'.
InitDefaults == InitDir /\ out_in_dir = TRUE

HasError(lines) == \E i \in 1..Len(lines) : lines[i].level = "ERROR"

\* The logger is reconfigured (the log file truncated) and read_all() runs.
ReadAll ==
    /\ pc = "idle"
    /\ dir_ok
    /\ log' = <<>>
    /\ all_data' = read_all(dir)
    /\ merged' = <<>>
    /\ cursor' = 0
    /\ pc' = "merge"
    /\ UNCHANGED <<dir, dir_ok, out_in_dir, outfile, run, prev_out>>

\* os.listdir raises; nothing in read_all or merge_and_write catches it.
ListFails ==
    /\ pc = "idle"
    /\ ~dir_ok
    /\ log' = <<>>
    /\ pc' = "raised"
    /\ UNCHANGED <<dir, dir_ok, out_in_dir, outfile, all_data, cursor, merged, run, prev_out>>

\* One pass of the aggregation loop.
MergeRow ==
    /\ pc = "merge"
    /\ cursor < Len(Flat(all_data))
    /\ merged' = AddRow(merged, Flat(all_data)[cursor + 1].file, Flat(all_data)[cursor + 1].row)
    /\ cursor' = cursor + 1
    /\ UNCHANGED <<dir, dir_ok, out_in_dir, outfile, pc, all_data, log, run, prev_out>>

HasName(listing, name) == \E i \in 1..Len(listing) : listing[i].name = name

InsertAt(s, i, x) == SubSeq(s, 1, i - 1) \o <<x>> \o SubSeq(s, i, Len(s))

\* open(output_csv, 'w') and writeheader(). A file created inside dir_path
\* appears in its listing, at a place the file system chooses.
OpenOutput ==
    /\ pc = "merge"
    /\ cursor = Len(Flat(all_data))
    /\ outfile' = [exists |-> TRUE, header |-> TRUE, rows |-> <<>>]
    /\ IF out_in_dir /\ ~HasName(dir, OutputName)
       THEN \E i \in 1..(Len(dir) + 1) :
                dir' = InsertAt(dir, i, [name |-> OutputName, bad |-> FALSE, rows |-> <<>>])
       ELSE dir' = dir
    /\ pc' = "write"
    /\ UNCHANGED <<dir_ok, out_in_dir, all_data, cursor, merged, log, run, prev_out>>

\* One pass of the writing loop; int() of a total that is not finite raises
\* inside the try block.
WriteRow ==
    /\ pc = "write"
    /\ Len(outfile.rows) < Len(merged)
    /\ LET data == merged[Len(outfile.rows) + 1]
       IN IF IntRaises(data.Qty)
          THEN /\ log' = Append(log, ErrorLine)
               /\ pc' = "done"
               /\ outfile' = outfile
          ELSE /\ outfile' = [outfile EXCEPT !.rows = Append(@, OutRow(data))]
               /\ UNCHANGED <<log, pc>>
    /\ UNCHANGED <<dir, dir_ok, out_in_dir, all_data, cursor, merged, run, prev_out>>

\* Mutant: the except branch logs the error but does not return.
WriteFails_no_return ==
    /\ \/ pc = "merge" /\ cursor = Len(Flat(all_data))
       \/ pc = "write"
    /\ log' = Append(log, ErrorLine)
    /\ pc' = "log"
    /\ UNCHANGED <<dir, dir_ok, out_in_dir, outfile, all_data, cursor, merged, run, prev_out>>

\* open, a write or the closing flush raises: the except branch logs and returns.
WriteFails ==
    /\ \/ pc = "merge" /\ cursor = Len(Flat(all_data))
       \/ pc = "write"
    /\ log' = Append(log, ErrorLine)
    /\ pc' = "done"
    /\ UNCHANGED <<dir, dir_ok, out_in_dir, outfile, all_data, cursor, merged, run, prev_out>>

\* The with block ends after the last entry.
CloseOutput ==
    /\ pc = "write"
    /\ Len(outfile.rows) = Len(merged)
    /\ pc' = "log"
    /\ UNCHANGED <<dir, dir_ok, out_in_dir, outfile, all_data, cursor, merged, log, run, prev_out>>

\* The collision loop, then the return.
LogCollisions ==
    /\ pc = "log"
    /\ log' = log \o CollisionLines(merged)
    /\ pc' = "done"
    /\ UNCHANGED <<dir, dir_ok, out_in_dir, outfile, all_data, cursor, merged, run, prev_out>>

\* The caller runs merge_and_write again with the same arguments.
Rerun ==
    /\ pc = "done"
    /\ run < MaxRuns
    /\ run' = run + 1
    /\ prev_out' = [file |-> outfile, ok |-> ~HasError(log)]
    /\ pc' = "idle"
    /\ UNCHANGED <<dir, dir_ok, out_in_dir, outfile, all_data, cursor, merged, log>>

Next ==
    \/ ReadAll
    \/ ListFails
    \/ MergeRow
    \/ OpenOutput
    \/ WriteRow
    \/ WriteFails
    \/ CloseOutput
    \/ LogCollisions

Spec == Init /\ [][Next]_vars

NextRerun == Next \/ Rerun

SpecRerun == InitDefaults /\ [][NextRerun]_vars

(***************************************************************************)
(* Properties                                                              *)
(***************************************************************************)
\* the parsed rows of the discovered files, and those processed so far
InputRows == Flat(all_data)
Processed == SubSeq(InputRows, 1, cursor)

\* the with block ended without an exception
Written == pc \in {"log", "done"} /\ ~HasError(log)

\* merge_and_write returned after a successful write
Finished == pc = "done" /\ ~HasError(log)

\* the LCSC of a row with the surrounding whitespace trimmed; blank or missing is ''
TrimmedLCSC(row) == IF row.LCSC = None THEN <<>> ELSE strip(row.LCSC)

RowsOfKey(rows, key) == SelectSeq(rows, LAMBDA x : TrimmedLCSC(x.row) = key)

QtysOf(rows) == [i \in 1..Len(rows) |-> _parse_qty(rows[i].row.Qty)]

\* the number an output Qty text denotes
OutValue(i) == float_of(outfile.rows[i].Qty)

OutValues == [i \in 1..Len(outfile.rows) |-> OutValue(i)]

\* C1 as stated: once the output is written, the sum of the output Qty values
\* equals the sum of _parse_qty(Qty) over all input rows.
C1_Conservation == Written => FSum(OutValues) = FSum(QtysOf(InputRows))

\* C1 as amended: once the output is written, every output row's Qty is the
\* sum of _parse_qty over the rows of its key, except that a sum less than
\* 1e-9 away from int(sum) is written as int(sum); the two grand totals
\* differ by less than 1e-9 per output row.
C1_ConservationWithinEps ==
    Written =>
        /\ \A i \in 1..Len(outfile.rows) :
               LET total == FSum(QtysOf(RowsOfKey(InputRows, outfile.rows[i].LCSC)))
               IN /\ IsFinite(total)
                  /\ IF NearInt(total)
                     THEN OutValue(i) = Fin(Trunc(total) * 10, 0)
                     ELSE OutValue(i) = total
        /\ LET diff == FAbs(FSub(FSum(OutValues), FSum(QtysOf(InputRows))))
           IN diff = Zero \/ FLess(diff, Fin(0, EpsUnits * Len(outfile.rows)))

\* an output of two rows, one of which lost a residue below 1e-9
C1_Witness ==
    /\ Written
    /\ Len(outfile.rows) >= 2
    /\ \E i \in 1..Len(outfile.rows) :
           /\ Len(RowsOfKey(InputRows, outfile.rows[i].LCSC)) >= 2
           /\ OutValue(i) # FSum(QtysOf(RowsOfKey(InputRows, outfile.rows[i].LCSC)))

EntriesOfKey(key) == { j \in 1..Len(merged) : merged[j].key = key }

\* C2: grouping is a strict partition. After every pass of the aggregation
\* loop each processed row is counted in exactly one entry, the one of its
\* trimmed LCSC (case-sensitive; blank and missing share ''), and every entry
\* counts exactly the rows of its key; a written output holds exactly one row
\* for the key of every input row.
C2_Partition ==
    /\ pc = "merge" =>
           /\ \A i \in 1..Len(Processed) :
                  Cardinality(EntriesOfKey(TrimmedLCSC(Processed[i].row))) = 1
           /\ \A j \in 1..Len(merged) :
                  /\ Len(merged[j].Files) = Len(RowsOfKey(Processed, merged[j].key))
                  /\ Len(merged[j].Files) >= 1
    /\ Written =>
           \A i \in 1..Len(InputRows) :
               Cardinality({ j \in 1..Len(outfile.rows) :
                                 outfile.rows[j].LCSC = TrimmedLCSC(InputRows[i].row) }) = 1

\* 'C1', ' C1 ' and 'c1' were merged and written: two output rows
C2_Witness ==
    /\ Written
    /\ \E a, b, c \in 1..Len(InputRows) :
           /\ InputRows[a].row.LCSC = T_C1
           /\ InputRows[b].row.LCSC = <<" ">> \o T_C1 \o <<" ">>
           /\ InputRows[c].row.LCSC = <<"c","1">>
    /\ Len(outfile.rows) = 2

RECURSIVE FirstSeen(_)
FirstSeen(keys) ==
    IF keys = <<>> THEN <<>>
    ELSE LET before == FirstSeen(SubSeq(keys, 1, Len(keys) - 1))
         IN IF InSeq(keys[Len(keys)], before) THEN before ELSE Append(before, keys[Len(keys)])

\* the keys of the rows of the csv files of the listing, files in listing
\* order and rows in file order; unreadable files have no rows
RECURSIVE KeysInDiscoveryOrder(_)
KeysInDiscoveryOrder(listing) ==
    IF listing = <<>> THEN <<>>
    ELSE (IF IsCsvName(Head(listing).name) /\ ~Head(listing).bad
          THEN [i \in 1..Len(Head(listing).rows) |-> TrimmedLCSC(filter_row(Head(listing).rows[i]))]
          ELSE <<>>)
         \o KeysInDiscoveryOrder(Tail(listing))

OutKeys == [i \in 1..Len(outfile.rows) |-> outfile.rows[i].LCSC]

\* C3: a written output holds one row per distinct merge key, in the order
\* the keys were first met (files in discovery order, rows in file order).
C3_FirstSeenOrder == Written => OutKeys = FirstSeen(KeysInDiscoveryOrder(dir))

\* rows with keys k1, k2, k1 were written as k1, k2
C3_Witness ==
    /\ Written
    /\ Len(InputRows) = 3
    /\ TrimmedLCSC(InputRows[1].row) = TrimmedLCSC(InputRows[3].row)
    /\ TrimmedLCSC(InputRows[1].row) # TrimmedLCSC(InputRows[2].row)
    /\ InputRows[1].file # InputRows[3].file
    /\ Len(outfile.rows) = 2

\* the collision lines of a key
LinesOfKey(key) ==
    { i \in 1..Len(log) :
          /\ log[i].level = "INFO"
          /\ Prefix(log[i].message, 14 + Len(key)) =
                 <<"M","e","r","g","e","d"," ","L","C","S","C","=","'">> \o key \o <<"'">> }

\* a name as a log line shows it: whole up to 10 characters, else its first
\* 8 characters and '..'
ShownName(name) == IF Len(name) <= 10 THEN name ELSE SubSeq(name, 1, 8) \o <<".",".">>

\* C4 as stated: after a successful run a key with one contributing row has
\* no log line, a key with two or more has exactly one, and that line
\* contains the file name of every contributing row.
C4_CollisionLineFullNames ==
    Finished =>
        \A j \in 1..Len(merged) :
            IF Len(merged[j].Files) = 1
            THEN LinesOfKey(merged[j].key) = {}
            ELSE /\ Cardinality(LinesOfKey(merged[j].key)) = 1
                 /\ \A i \in LinesOfKey(merged[j].key), c \in 1..Len(merged[j].Files) :
                        Contains(log[i].message, merged[j].Files[c].file)

\* C4 as amended: ... and that line contains, for every contributing row, its
\* file name cut to 10 characters (the first 8 and '..') when it is longer.
C4_CollisionLineShownNames ==
    Finished =>
        /\ \A j \in 1..Len(merged) :
               IF Len(merged[j].Files) = 1
               THEN LinesOfKey(merged[j].key) = {}
               ELSE /\ Cardinality(LinesOfKey(merged[j].key)) = 1
                    /\ \A i \in LinesOfKey(merged[j].key), c \in 1..Len(merged[j].Files) :
                           Contains(log[i].message,
                                    ShownName(merged[j].Files[c].file) \o <<"(","q","t","y","=">>)
        /\ \A i \in 1..Len(log) : \E j \in 1..Len(merged) : i \in LinesOfKey(merged[j].key)

\* a finished run with a key fed by two files, one of them with a long name,
\* and a key fed by one row
C4_Witness ==
    /\ Finished
    /\ \E j, k \in 1..Len(merged) :
           /\ Len(merged[j].Files) = 2
           /\ Len(merged[j].Files[1].file) > 10
           /\ Len(merged[j].Files[2].file) <= 10
           /\ Len(merged[k].Files) = 1

\* C5: a second run on unchanged input files with the same arguments leaves
\* an output file identical to the one the first run left.
C5_Idempotent ==
    (run = 2 /\ pc = "done" /\ ~HasError(log) /\ prev_out.ok) => outfile = prev_out.file

\* every entry was written
Complete == outfile.exists /\ outfile.header /\ Len(outfile.rows) = Len(merged)

\* C6: when opening or writing the output fails, before the header or after
\* some rows, the run logs exactly one ERROR line and no collision line, and
\* returns without raising.
C6_WriteFailure ==
    /\ (pc \in {"done", "raised"} /\ dir_ok /\ (HasError(log) \/ ~Complete)) =>
           /\ pc = "done"
           /\ Len(log) = 1
           /\ log[1].level = "ERROR"
    /\ pc = "log" => Complete /\ log = <<>>

\* a write failed after a row was written, with a collision to report and
\* every total finite
C6_Witness ==
    /\ pc = "done"
    /\ HasError(log)
    /\ Len(outfile.rows) >= 1
    /\ Len(outfile.rows) < Len(merged)
    /\ \A j \in 1..Len(merged) : IsFinite(merged[j].Qty)
    /\ \E j \in 1..Len(merged) : IsCollision(merged[j])

\* the listing without the files that cannot be read
Readable(listing) == SelectSeq(listing, LAMBDA e : ~e.bad)

RECURSIVE MergeOf(_)
MergeOf(rows) ==
    IF rows = <<>> THEN <<>>
    ELSE AddRow(MergeOf(SubSeq(rows, 1, Len(rows) - 1)), rows[Len(rows)].file, rows[Len(rows)].row)

\* C7: a discovered file that cannot be read contributes no row, the other
\* files are merged and written as if it were absent, and no exception
\* reaches the caller.
C7_BadFileAsAbsent ==
    dir_ok =>
        /\ pc # "raised"
        /\ \A j \in 1..Len(merged) : \A c \in 1..Len(merged[j].Files) :
               \E i \in 1..Len(dir) : dir[i].name = merged[j].Files[c].file /\ ~dir[i].bad
        /\ Written =>
               LET absent == Flat(read_all(Readable(dir)))
                   entries == MergeOf(absent)
               IN /\ InputRows = absent
                  /\ merged = entries
                  /\ outfile.rows = [j \in 1..Len(entries) |-> OutRow(entries[j])]

\* a file holding rows could not be read, and the rows of another were written
C7_Witness ==
    /\ Written
    /\ Len(outfile.rows) >= 1
    /\ \E i \in 1..Len(dir) : IsCsvName(dir[i].name) /\ dir[i].bad /\ dir[i].rows # <<>>

\* C8: no Qty text is surfaced as an error: writing the row of a merge key
\* never ends in an ERROR line.
C8_QtyNeverAnError == [][WriteRow => ~HasError(log')]_vars

\* the integers next to a finite total
FloorOf(v) == v.t \div 10

WithinEpsOf(v, n) == FLess(FAbs(FSub(v, Fin(n * 10, 0))), Fin(0, EpsUnits))

\* C9: a total within 1e-9 of an integer n, above or below, is written as the
\* integer text of n, any other total as its decimal text.
C9_QtyFormat ==
    \A j \in 1..Len(outfile.rows) :
        LET total == merged[j].Qty
        IN IF WithinEpsOf(total, FloorOf(total))
           THEN outfile.rows[j].Qty = IntText(FloorOf(total))
           ELSE IF WithinEpsOf(total, FloorOf(total) + 1)
           THEN outfile.rows[j].Qty = IntText(FloorOf(total) + 1)
           ELSE outfile.rows[j].Qty = str_float(total)

NoDuplicates(s) == \A i, j \in 1..Len(s) : s[i] = s[j] => i = j

\* the contribution record the claim expects for a row
RecordOf(x) ==
    [file |-> x.file, qty |-> _parse_qty(x.row.Qty),
     desc |-> strip(OrEmpty(x.row.Description)), value |-> strip(OrEmpty(x.row.Value))]

\* C10: after each processed row, every entry's total is the sum of the qty
\* of its contribution records, it has one record per processed row of its
\* key, in processing order, repeats and zero quantities included, and its
\* Descriptions and Values hold no duplicate and no empty string.
C10_EntryInvariant ==
    pc = "merge" =>
        \A j \in 1..Len(merged) :
            LET e == merged[j]
                mine == RowsOfKey(Processed, e.key)
            IN /\ e.Qty = FSum([i \in 1..Len(e.Files) |-> e.Files[i].qty])
               /\ e.Files = [i \in 1..Len(mine) |-> RecordOf(mine[i])]
               /\ NoDuplicates(e.Descriptions) /\ ~InSeq(<<>>, e.Descriptions)
               /\ NoDuplicates(e.Values) /\ ~InSeq(<<>>, e.Values)

\* mid-loop: an entry with a repeated description recorded once, and a
\* record of quantity zero
C10_Witness ==
    /\ pc = "merge"
    /\ cursor = 3
    /\ \E j \in 1..Len(merged) :
           /\ Len(merged[j].Files) = 2
           /\ merged[j].Files[1].desc = merged[j].Files[2].desc
           /\ Len(merged[j].Descriptions) = 1
    /\ \E j \in 1..Len(merged) : \E c \in 1..Len(merged[j].Files) :
           merged[j].Files[c].qty = Zero

====
